---------------------------- MODULE Spec2Model ----------------------------
(***************************************************************************)
(* The friend-edge engine of server/core_friend.go: the tables users and  *)
(* user_edge, the per-id units addFriend, deleteFriend and blockFriend,   *)
(* the batch operations that run them in one transaction, GetFriends, and  *)
(* the AddFriends request handler of server/api_friend.go.                *)
(* Every SQL statement is an operator on a set of rows that returns what  *)
(* the statement matches or writes; RowsAffected is a cardinality.        *)
(***************************************************************************)
EXTENDS Integers, Sequences, FiniteSets, TLC

(***************************************************************************)
(* Bounds of the model.                                                    *)
(***************************************************************************)
MaxTime == 2
MaxBatch == 2
MaxCount == 2
MaxDebt == 1
MaxCalls == 1

(***************************************************************************)
(* The rows of users (these ids exist) and an id that is no row of users.  *)
(***************************************************************************)
Users == {"u1", "u2"}
Missing == "nobody"
Ids == Users \cup {Missing}

(***************************************************************************)
(* user_edge.state as the statements write it.                             *)
(***************************************************************************)
Accepted == 0
Invited == 1
OutgoingRequest == 2
Blocked == 3

VARIABLES
    user_edge,    \* table user_edge: rows [source_id, destination_id, state, position]
    edge_count,   \* column users.edge_count, per row of users
    now,          \* the last value time.Now().UTC().Unix() returned
    last,         \* the call that produced this state, with the store before it
    stale,        \* history: pairs <<a, b>>: a invited b, b blocked a, b->a Blocked since
    calls,        \* the number of batch requests served so far
    tx            \* the in-flight transactions of the concurrent specification

vars == <<user_edge, edge_count, now, last, stale, calls, tx>>

Row(s, d, st, pos) ==
    [source_id |-> s, destination_id |-> d, state |-> st, position |-> pos]

From(E, s, d) == {r \in E : r.source_id = s /\ r.destination_id = d}

Between(E, a, b) == From(E, a, b) \cup From(E, b, a)

(***************************************************************************)
(* UPDATE users SET edge_count = edge_count + d WHERE id IN ids: only the  *)
(* rows of users are touched.                                              *)
(***************************************************************************)
Bump(C, ids, d) == [u \in Users |-> IF u \in ids THEN C[u] + d ELSE C[u]]

Ret(E, C, e, acc) == [edge |-> E, count |-> C, err |-> e, accepted |-> acc]

(***************************************************************************)
(* addFriend, statement by statement.                                      *)
(***************************************************************************)
\* the unblock DELETE with its two parameters bound the other way round
UnblockRowsSwapped(E, userID, friendID) ==
    {r \in From(E, friendID, userID) : r.state = Blocked}

\* DELETE FROM user_edge WHERE source_id = $1 AND destination_id = $2 AND state = 3
UnblockRows(E, userID, friendID) ==
    {r \in From(E, userID, friendID) : r.state = Blocked}

\* the acceptance UPDATE with its two parameters bound the other way round
AcceptRowsSwapped(E, p1, p2) ==
    {r \in E : \/ r.source_id = p2 /\ r.destination_id = p1 /\ r.state = OutgoingRequest
               \/ r.source_id = p1 /\ r.destination_id = p2 /\ r.state = Invited}

\* the acceptance UPDATE matching a pending pair whichever side sent the invite
AcceptRowsEither(E, p1, p2) ==
    {r \in Between(E, p1, p2) : r.state \in {OutgoingRequest, Invited}}

\* UPDATE user_edge SET state = 0 WHERE (source_id = $1 AND destination_id = $2
\* AND state = 2) OR (source_id = $2 AND destination_id = $1 AND state = 1),
\* called with $1 = friendID, $2 = userID
AcceptRows(E, p1, p2) ==
    {r \in E : \/ r.source_id = p1 /\ r.destination_id = p2 /\ r.state = OutgoingRequest
               \/ r.source_id = p2 /\ r.destination_id = p1 /\ r.state = Invited}

SetState(E, rows, st) ==
    (E \ rows) \cup {[r EXCEPT !.state = st] : r \in rows}

\* INSERT ... one row ... ON CONFLICT (source_id, destination_id) DO NOTHING
InsertIgnore(E, r) ==
    IF From(E, r.source_id, r.destination_id) # {} THEN E ELSE E \cup {r}

\* the INSERT with the states of its two rows exchanged
InsertInviteSwapped(E, userID, friendID, timestamp) ==
    IF friendID \notin Users THEN E
    ELSE InsertIgnore(InsertIgnore(E, Row(userID, friendID, Invited, timestamp)),
                      Row(friendID, userID, OutgoingRequest, timestamp))

\* INSERT INTO user_edge ... VALUES ($1, $2, 2, $3), ($2, $1, 1, $3)
\* WHERE EXISTS (SELECT id FROM users WHERE id = $2) ON CONFLICT DO NOTHING
InsertInvite(E, userID, friendID, timestamp) ==
    IF friendID \notin Users THEN E
    ELSE InsertIgnore(InsertIgnore(E, Row(userID, friendID, OutgoingRequest, timestamp)),
                      Row(friendID, userID, Invited, timestamp))

\* UPDATE users SET edge_count = edge_count + 1 WHERE (id = $1 OR id = $2)
\* AND NOT EXISTS (SELECT state FROM user_edge WHERE (source_id = $1 AND
\* destination_id = $2 AND position <> $3) OR (source_id = $2 AND
\* destination_id = $1 AND position <> $3)): the rows of users it updates
CountTargets(E, userID, friendID, timestamp) ==
    IF \E r \in Between(E, userID, friendID) : r.position # timestamp
    THEN {}
    ELSE {userID, friendID} \cap Users

\* failAt = n: the n-th tx.Exec of the function returns an error; 0: none does
addFriend(E, C, userID, friendID, timestamp, failAt) ==
    LET del == UnblockRows(E, userID, friendID)
        E1 == E \ del
        upd == AcceptRows(E1, friendID, userID)
        E2 == SetState(E1, upd, Accepted)
        E3 == InsertInvite(E2, userID, friendID, timestamp)
        tg == CountTargets(E3, userID, friendID, timestamp)
    IN  IF failAt = 1 THEN Ret(E, C, "ErrStore", FALSE)
        ELSE IF Cardinality(del) = 1
        THEN IF failAt = 2 THEN Ret(E1, C, "ErrStore", FALSE)
             ELSE Ret(E1, Bump(C, {userID}, -1), "ErrNoRows", FALSE)
        ELSE IF failAt = 3 THEN Ret(E1, C, "ErrStore", FALSE)
        ELSE IF Cardinality(upd) = 2 THEN Ret(E2, C, "nil", TRUE)
        ELSE IF failAt = 4 THEN Ret(E2, C, "ErrStore", FALSE)
        ELSE IF failAt = 5 THEN Ret(E3, C, "ErrStore", FALSE)
        ELSE IF Cardinality(tg) # 2
        THEN Ret(E3, Bump(C, tg, 1), "ErrNoRows", FALSE)
        ELSE Ret(E3, Bump(C, tg, 1), "nil", FALSE)

(***************************************************************************)
(* deleteFriend.                                                           *)
(***************************************************************************)
\* deleteFriend with the rowsAffected == 0 return left out
deleteFriendStrict(E, C, userID, friendID, timestamp, failAt) ==
    LET del == Between(E, userID, friendID)
        E1 == E \ del
    IN  IF failAt = 1 THEN Ret(E, C, "ErrStore", FALSE)
        ELSE IF Cardinality(del) # 2 THEN Ret(E1, C, "ErrEdges", FALSE)
        ELSE IF failAt = 2 THEN Ret(E1, C, "ErrStore", FALSE)
        ELSE Ret(E1, Bump(C, {userID, friendID}, -1), "nil", FALSE)

\* deleteFriend taking a single deleted row as a relationship removed
deleteFriendLax(E, C, userID, friendID, timestamp, failAt) ==
    LET del == Between(E, userID, friendID)
        E1 == E \ del
    IN  IF failAt = 1 THEN Ret(E, C, "ErrStore", FALSE)
        ELSE IF Cardinality(del) = 0 THEN Ret(E1, C, "nil", FALSE)
        ELSE IF failAt = 2 THEN Ret(E1, C, "ErrStore", FALSE)
        ELSE Ret(E1, Bump(C, {userID, friendID}, -1), "nil", FALSE)

deleteFriend(E, C, userID, friendID, timestamp, failAt) ==
    LET del == Between(E, userID, friendID)
        E1 == E \ del
    IN  IF failAt = 1 THEN Ret(E, C, "ErrStore", FALSE)
        ELSE IF Cardinality(del) = 0 THEN Ret(E1, C, "nil", FALSE)
        ELSE IF Cardinality(del) # 2 THEN Ret(E1, C, "ErrEdges", FALSE)
        ELSE IF failAt = 2 THEN Ret(E1, C, "ErrStore", FALSE)
        ELSE Ret(E1, Bump(C, {userID, friendID}, -1), "nil", FALSE)

(***************************************************************************)
(* blockFriend.                                                            *)
(***************************************************************************)
\* the INSERT of blockFriend without its WHERE EXISTS
InsertBlockAlways(E, userID, friendID, timestamp) ==
    E \cup {Row(userID, friendID, Blocked, timestamp)}

\* INSERT INTO user_edge ... VALUES ($1, $2, 3, $3)
\* WHERE EXISTS (SELECT id FROM users WHERE id = $2)
InsertBlock(E, userID, friendID, timestamp) ==
    IF friendID \notin Users THEN E
    ELSE E \cup {Row(userID, friendID, Blocked, timestamp)}

\* the DELETE of the opposite row without its state != 3 condition
OppositeRowsAny(E, p1, p2) == From(E, p1, p2)

\* DELETE FROM user_edge WHERE source_id = $1 AND destination_id = $2 AND state != 3,
\* called with $1 = friendID, $2 = userID
OppositeRows(E, p1, p2) == {r \in From(E, p1, p2) : r.state # Blocked}

\* blockFriend adding 1 to the actor's edge_count when the UPDATE found the row too
blockFriendCounting(E, C, userID, friendID, timestamp, failAt) ==
    LET upd == From(E, userID, friendID)
        E1 == SetState(E, upd, Blocked)
        E2 == IF upd = {} THEN InsertBlock(E1, userID, friendID, timestamp) ELSE E1
        ins == E2 \ E1
        C2 == Bump(C, {userID}, 1)
        opp == OppositeRows(E2, friendID, userID)
        E3 == E2 \ opp
    IN  IF failAt = 1 THEN Ret(E, C, "ErrStore", FALSE)
        ELSE IF upd = {} /\ failAt = 2 THEN Ret(E1, C, "ErrStore", FALSE)
        ELSE IF upd = {} /\ Cardinality(ins) = 0 THEN Ret(E2, C, "nil", FALSE)
        ELSE IF failAt = 3 THEN Ret(E2, C, "ErrStore", FALSE)
        ELSE IF failAt = 4 THEN Ret(E2, C2, "ErrStore", FALSE)
        ELSE IF Cardinality(opp) = 1
        THEN IF failAt = 5 THEN Ret(E3, C2, "ErrStore", FALSE)
             ELSE Ret(E3, Bump(C2, {friendID}, -1), "nil", FALSE)
        ELSE Ret(E3, C2, "nil", FALSE)

blockFriend(E, C, userID, friendID, timestamp, failAt) ==
    LET upd == From(E, userID, friendID)
        E1 == SetState(E, upd, Blocked)
        E2 == IF upd = {} THEN InsertBlock(E1, userID, friendID, timestamp) ELSE E1
        ins == E2 \ E1
        C2 == IF upd = {} THEN Bump(C, {userID}, 1) ELSE C
        opp == OppositeRows(E2, friendID, userID)
        E3 == E2 \ opp
    IN  IF failAt = 1 THEN Ret(E, C, "ErrStore", FALSE)
        ELSE IF upd = {} /\ failAt = 2 THEN Ret(E1, C, "ErrStore", FALSE)
        ELSE IF upd = {} /\ Cardinality(ins) = 0 THEN Ret(E2, C, "nil", FALSE)
        ELSE IF upd = {} /\ failAt = 3 THEN Ret(E2, C, "ErrStore", FALSE)
        ELSE IF failAt = 4 THEN Ret(E2, C2, "ErrStore", FALSE)
        ELSE IF Cardinality(opp) = 1
        THEN IF failAt = 5 THEN Ret(E3, C2, "ErrStore", FALSE)
             ELSE Ret(E3, Bump(C2, {friendID}, -1), "nil", FALSE)
        ELSE Ret(E3, C2, "nil", FALSE)

(***************************************************************************)
(* Transact(logger, db, fn): fn's writes are committed when fn returns     *)
(* nil and rolled back when it returns an error, which is returned.        *)
(***************************************************************************)
Transact(E, C, r) ==
    IF r.err = "nil"
    THEN [edge |-> r.edge, count |-> r.count, err |-> "nil", notif |-> r.notif, unit |-> 0]
    ELSE [edge |-> E, count |-> C, err |-> r.err, notif |-> r.notif, unit |-> r.unit]

NoFault == [unit |-> 0, stmt |-> 0]

FailAt(fault, i) == IF fault.unit = i THEN fault.stmt ELSE 0

\* notificationToSend[id] = isFriendAccept
Notify(notif, id, acc) ==
    {n \in notif : n.id # id} \cup {[id |-> id, accept |-> acc]}

(***************************************************************************)
(* The loops over ids inside the transaction function, from the i-th id.   *)
(***************************************************************************)
\* the loop of AddFriends returning every error of addFriend, sql.ErrNoRows too
RECURSIVE AddLoopStrict(_, _, _, _, _, _, _, _)
AddLoopStrict(E, C, currentUser, ids, ts, fault, i, notif) ==
    IF i > Len(ids)
    THEN [edge |-> E, count |-> C, err |-> "nil", notif |-> notif, unit |-> 0]
    ELSE LET r == addFriend(E, C, currentUser, ids[i], ts, FailAt(fault, i))
         IN  IF r.err = "nil"
             THEN AddLoopStrict(r.edge, r.count, currentUser, ids, ts, fault, i + 1,
                                Notify(notif, ids[i], r.accepted))
             ELSE [edge |-> r.edge, count |-> r.count, err |-> r.err, notif |-> notif,
                   unit |-> i]

RECURSIVE AddLoop(_, _, _, _, _, _, _, _)
AddLoop(E, C, currentUser, ids, ts, fault, i, notif) ==
    IF i > Len(ids)
    THEN [edge |-> E, count |-> C, err |-> "nil", notif |-> notif, unit |-> 0]
    ELSE LET r == addFriend(E, C, currentUser, ids[i], ts, FailAt(fault, i))
         IN  IF r.err = "nil"
             THEN AddLoop(r.edge, r.count, currentUser, ids, ts, fault, i + 1,
                          Notify(notif, ids[i], r.accepted))
             ELSE IF r.err # "ErrNoRows"
             THEN [edge |-> r.edge, count |-> r.count, err |-> r.err, notif |-> notif,
                   unit |-> i]
             ELSE AddLoop(r.edge, r.count, currentUser, ids, ts, fault, i + 1, notif)

RECURSIVE DeleteLoop(_, _, _, _, _, _, _)
DeleteLoop(E, C, currentUser, ids, ts, fault, i) ==
    IF i > Len(ids)
    THEN [edge |-> E, count |-> C, err |-> "nil", notif |-> {}, unit |-> 0]
    ELSE LET r == deleteFriend(E, C, currentUser, ids[i], ts, FailAt(fault, i))
         IN  IF r.err # "nil"
             THEN [edge |-> r.edge, count |-> r.count, err |-> r.err, notif |-> {},
                   unit |-> i]
             ELSE DeleteLoop(r.edge, r.count, currentUser, ids, ts, fault, i + 1)

RECURSIVE BlockLoop(_, _, _, _, _, _, _)
BlockLoop(E, C, currentUser, ids, ts, fault, i) ==
    IF i > Len(ids)
    THEN [edge |-> E, count |-> C, err |-> "nil", notif |-> {}, unit |-> 0]
    ELSE LET r == blockFriend(E, C, currentUser, ids[i], ts, FailAt(fault, i))
         IN  IF r.err # "nil"
             THEN [edge |-> r.edge, count |-> r.count, err |-> r.err, notif |-> {},
                   unit |-> i]
             ELSE BlockLoop(r.edge, r.count, currentUser, ids, ts, fault, i + 1)

AddFriends(E, C, currentUser, ids, ts, fault) ==
    Transact(E, C, AddLoop(E, C, currentUser, ids, ts, fault, 1, {}))

DeleteFriends(E, C, currentUser, ids, ts, fault) ==
    Transact(E, C, DeleteLoop(E, C, currentUser, ids, ts, fault, 1))

BlockFriends(E, C, currentUser, ids, ts, fault) ==
    Transact(E, C, BlockLoop(E, C, currentUser, ids, ts, fault, 1))

(***************************************************************************)
(* GetFriends: SELECT ... FROM users, user_edge WHERE id = destination_id  *)
(* AND source_id = $1, one api.Friend appended per row of the join.        *)
(***************************************************************************)
\* the join with blocked rows filtered out
FriendRowsUnblocked(U, E, userID) ==
    {p \in U \X E : /\ p[1] = p[2].destination_id /\ p[2].source_id = userID
                     /\ p[2].state # Blocked}

FriendRows(U, E, userID) ==
    {p \in U \X E : p[1] = p[2].destination_id /\ p[2].source_id = userID}

RECURSIVE ScanRows(_)
ScanRows(rows) ==
    IF rows = {} THEN << >>
    ELSE LET p == CHOOSE q \in rows : TRUE
         IN  <<[Id |-> p[1], State |-> p[2].state, Online |-> FALSE]>>
                 \o ScanRows(rows \ {p})

GetFriends(U, E, userID) == ScanRows(FriendRows(U, E, userID))

(***************************************************************************)
(* The inputs of a call: the ids of a request do not hold the caller's own *)
(* id, and any of them may be no row of users.                             *)
(***************************************************************************)
IdLists(actor) ==
    UNION {[1..n -> Ids \ {actor}] : n \in 1..MaxBatch}

\* A tx.Exec that fails ends the loop: the ids after the failing unit are never
\* read, so the failing unit is taken to be the last of the list.
Faults(ids) ==
    {NoFault} \cup {[unit |-> Len(ids), stmt |-> n] : n \in 1..5}

InRange(C) == \A u \in Users : C[u] >= -MaxDebt /\ C[u] <= MaxCount

Workers == {1, 2}

Idle == [pc |-> "idle", actor |-> Missing, target |-> Missing, ts |-> 0,
         fresh |-> FALSE, keys |-> {}, rows |-> {}, counts |-> {},
         err |-> "nil", accepted |-> FALSE]

NoInvite == [from |-> Missing, to |-> Missing, base |-> [u \in Users |-> 0]]

Rel(E, a, b, st) == \E r \in From(E, a, b) : r.state = st

\* a sent b an invite that b has not answered
Pending(E, a, b) ==
    Rel(E, a, b, OutgoingRequest) /\ Rel(E, b, a, Invited)

(***************************************************************************)
(* History kept for the properties: the pair of a first invite that the    *)
(* call just made created, and the invites dropped by the target's block.  *)
(***************************************************************************)
InviteOf(op, E, C, actor, ids, res) ==
    IF /\ op = "add" /\ Len(ids) = 1 /\ res.err = "nil"
       /\ Between(E, actor, ids[1]) = {}
       /\ [id |-> ids[1], accept |-> FALSE] \in res.notif
    THEN [from |-> actor, to |-> ids[1], base |-> C]
    ELSE NoInvite

StaleAfter(op, E, actor, ids, res) ==
    LET new == IF op = "block" /\ res.err = "nil"
               THEN {<<ids[i], actor>> : i \in {j \in 1..Len(ids) : Pending(E, ids[j], actor)}}
               ELSE {}
    IN  {p \in stale \cup new : Rel(res.edge, p[2], p[1], Blocked)}

\* the first invite that the call just made answers, if it answers one
\* the pairs <<a, b>> such that a request of a to add b has been committed since
\* the last time no row existed between a and b
AskedAfter(op, actor, ids, res) ==
    LET new == IF op = "add" /\ res.err = "nil"
               THEN {<<actor, ids[i]>> : i \in 1..Len(ids)}
               ELSE {}
    IN  {p \in last.asked \cup new : Between(res.edge, p[1], p[2]) # {}}

AnswerOf(op, actor, ids) ==
    IF op = "add" /\ Len(ids) = 1 /\ last.invite.to = actor /\ last.invite.from = ids[1]
    THEN last.invite
    ELSE NoInvite

Call(op, actor, ids, ts, fault, res) ==
    /\ InRange(res.count)
    /\ user_edge' = res.edge
    /\ edge_count' = res.count
    /\ now' = ts
    /\ last' = [op |-> op, actor |-> actor, ids |-> ids, err |-> res.err,
                unit |-> res.unit, faulty |-> fault # NoFault,
                notif |-> res.notif, friends |-> << >>,
                invite |-> InviteOf(op, user_edge, edge_count, actor, ids, res),
                answered |-> AnswerOf(op, actor, ids),
                twice |-> last.op = op /\ last.actor = actor /\ last.ids = ids,
                asked |-> AskedAfter(op, actor, ids, res)]
    /\ stale' = StaleAfter(op, user_edge, actor, ids, res)

(***************************************************************************)
(* Requests that carry one id, served with no store failure.               *)
(***************************************************************************)
AddFriendCall ==
    \E actor \in Users : \E id \in Ids \ {actor} : \E ts \in now..MaxTime :
        /\ Call("add", actor, <<id>>, ts, NoFault,
                AddFriends(user_edge, edge_count, actor, <<id>>, ts, NoFault))
        /\ UNCHANGED <<calls, tx>>

DeleteFriendCall ==
    \E actor \in Users : \E id \in Ids \ {actor} : \E ts \in now..MaxTime :
        /\ Call("delete", actor, <<id>>, ts, NoFault,
                DeleteFriends(user_edge, edge_count, actor, <<id>>, ts, NoFault))
        /\ UNCHANGED <<calls, tx>>

BlockFriendCall ==
    \E actor \in Users : \E id \in Ids \ {actor} : \E ts \in now..MaxTime :
        /\ Call("block", actor, <<id>>, ts, NoFault,
                BlockFriends(user_edge, edge_count, actor, <<id>>, ts, NoFault))
        /\ UNCHANGED <<calls, tx>>

(***************************************************************************)
(* Requests that carry up to MaxBatch ids, where one tx.Exec may fail.     *)
(***************************************************************************)
AddFriendsBatch ==
    \E actor \in Users : \E ids \in IdLists(actor) :
      \E ts \in now..MaxTime : \E fault \in Faults(ids) :
        /\ calls < MaxCalls
        /\ Call("add", actor, ids, ts, fault,
                AddFriends(user_edge, edge_count, actor, ids, ts, fault))
        /\ calls' = calls + 1
        /\ UNCHANGED tx

DeleteFriendsBatch ==
    \E actor \in Users : \E ids \in IdLists(actor) :
      \E ts \in now..MaxTime : \E fault \in Faults(ids) :
        /\ calls < MaxCalls
        /\ Call("delete", actor, ids, ts, fault,
                DeleteFriends(user_edge, edge_count, actor, ids, ts, fault))
        /\ calls' = calls + 1
        /\ UNCHANGED tx

BlockFriendsBatch ==
    \E actor \in Users : \E ids \in IdLists(actor) :
      \E ts \in now..MaxTime : \E fault \in Faults(ids) :
        /\ calls < MaxCalls
        /\ Call("block", actor, ids, ts, fault,
                BlockFriends(user_edge, edge_count, actor, ids, ts, fault))
        /\ calls' = calls + 1
        /\ UNCHANGED tx

NoCall ==
    [op |-> "init", actor |-> Missing, ids |-> << >>, err |-> "nil", unit |-> 0,
     faulty |-> FALSE, notif |-> {}, friends |-> << >>, invite |-> NoInvite,
     answered |-> NoInvite, twice |-> FALSE, asked |-> {}]

Init ==
    /\ user_edge = {}
    /\ edge_count = [u \in Users |-> 0]
    /\ now = 1
    /\ last = NoCall
    /\ stale = {}
    /\ calls = 0
    /\ tx = [w \in Workers |-> Idle]

Next ==
    \/ AddFriendCall
    \/ DeleteFriendCall
    \/ BlockFriendCall

Spec == Init /\ [][Next]_vars

(***************************************************************************)
(* The rows two users can have between them once the engine has paired or  *)
(* blocked them, all made in second 1.                                     *)
(***************************************************************************)
PairStates == {"none", "accepted", "invite", "invited", "block", "blocked", "blocks"}

PairRows(p, c) ==
    CASE c = "none" -> {}
      [] c = "accepted" -> {Row(p[1], p[2], Accepted, 1), Row(p[2], p[1], Accepted, 1)}
      [] c = "invite" -> {Row(p[1], p[2], OutgoingRequest, 1), Row(p[2], p[1], Invited, 1)}
      [] c = "invited" -> {Row(p[1], p[2], Invited, 1), Row(p[2], p[1], OutgoingRequest, 1)}
      [] c = "block" -> {Row(p[1], p[2], Blocked, 1)}
      [] c = "blocked" -> {Row(p[2], p[1], Blocked, 1)}
      [] c = "blocks" -> {Row(p[1], p[2], Blocked, 1), Row(p[2], p[1], Blocked, 1)}

\* the batch requests are served from any of these states of the pair of Users
BatchInit ==
    /\ \E c \in PairStates : user_edge = PairRows(<<"u1", "u2">>, c)
    /\ edge_count = [u \in Users |-> Cardinality({r \in user_edge : r.source_id = u})]
    /\ now = 1
    /\ last = NoCall
    /\ stale = {}
    /\ calls = 0
    /\ tx = [w \in Workers |-> Idle]

NextBatch ==
    \/ AddFriendsBatch
    \/ DeleteFriendsBatch
    \/ BlockFriendsBatch

SpecBatch == BatchInit /\ [][NextBatch]_vars

(***************************************************************************)
(* Properties of the engine under Spec: every request carries one id.      *)
(***************************************************************************)
Owned(E, u) == {r \in E : r.source_id = u}

\* C1: for every user U, edge_count(U) is the number of user_edge rows whose
\* source_id is U, after every completed AddFriend, DeleteFriend or BlockFriend.
C1_CountConsistency ==
    \A u \in Users : edge_count[u] = Cardinality(Owned(user_edge, u))

PairedOrBlocked(E, a, b) ==
    \/ Between(E, a, b) = {}
    \/ Rel(E, a, b, Accepted) /\ Rel(E, b, a, Accepted)
    \/ Pending(E, a, b)
    \/ Pending(E, b, a)
    \/ \A r \in Between(E, a, b) : r.state = Blocked

\* C2: the rows between any two users are no row, two Accepted rows, an
\* OutgoingRequest row with its Invited mirror, or only Blocked rows.
C2_Symmetry ==
    \A a \in Users : \A b \in Users \ {a} : PairedOrBlocked(user_edge, a, b)

\* C3: once a has invited b and b has blocked a, while b->a stays Blocked an
\* AddFriend(a, b) makes no row between a and b appear and changes no edge_count.
C3_BlockOverridesPending ==
    [][\A a \in Users : \A b \in Users \ {a} :
        (/\ <<a, b>> \in stale
         /\ last'.op = "add" /\ last'.actor = a /\ last'.ids = <<b>>)
        => (/\ Between(user_edge', a, b) = Between(user_edge, a, b)
            /\ edge_count' = edge_count)]_vars

BothAccepted(E, a, b) ==
    /\ Rel(E, a, b, Accepted) /\ Rel(E, b, a, Accepted)
    /\ Cardinality(Between(E, a, b)) = 2

\* C4: from no row between a and b, AddFriend(a, b) makes the pending pair and
\* adds 1 to the edge_count of each; AddFriend(b, a) called next leaves both rows
\* Accepted, reports accepted = true and adds nothing more to either edge_count.
C4_AcceptConvergence ==
    /\ last.invite # NoInvite =>
         LET a == last.invite.from
             b == last.invite.to
         IN  /\ Pending(user_edge, a, b)
             /\ Cardinality(Between(user_edge, a, b)) = 2
             /\ \A u \in {a, b} : edge_count[u] = last.invite.base[u] + 1
             /\ \A u \in Users \ {a, b} : edge_count[u] = last.invite.base[u]
    /\ last.answered # NoInvite =>
         LET a == last.answered.from
             b == last.answered.to
         IN  /\ BothAccepted(user_edge, a, b)
             /\ last.err = "nil"
             /\ last.notif = {[id |-> a, accept |-> TRUE]}
             /\ \A u \in {a, b} : edge_count[u] = last.answered.base[u] + 1
             /\ \A u \in Users \ {a, b} : edge_count[u] = last.answered.base[u]

C4_Witness ==
    /\ last.answered # NoInvite
    /\ last.op = "add"
    /\ BothAccepted(user_edge, last.actor, last.ids[1])

\* C5: DeleteFriend(actor, target) called when no row exists between the two
\* returns no error and changes no row and no edge_count, the second time too.
C5_DeleteIdempotent ==
    [][\A a \in Users : \A b \in Ids \ {a} :
        (/\ last'.op = "delete" /\ last'.actor = a /\ last'.ids = <<b>>
         /\ Between(user_edge, a, b) = {})
        => (/\ last'.err = "nil"
            /\ user_edge' = user_edge
            /\ edge_count' = edge_count)]_vars

C5_Witness ==
    /\ last.op = "delete" /\ last.twice /\ last.err = "nil"
    /\ last.ids[1] \in Users
    /\ Between(user_edge, last.actor, last.ids[1]) = {}

\* C6: AddFriend(actor, target) with a target that is no row of users returns no
\* error from AddFriends, creates no row and changes no edge_count.
C6_MissingTargetNoOp ==
    [][(last'.op = "add" /\ last'.ids = <<Missing>>)
        => (/\ last'.err = "nil"
            /\ user_edge' = user_edge
            /\ edge_count' = edge_count)]_vars

\* C9: in the states the engine makes, DeleteFriend removes zero rows or two,
\* so it never returns "unexpected number of edges were deleted".
C9_DeleteNeverInconsistent ==
    last.op = "delete" => last.err # "ErrEdges"

(***************************************************************************)
(* Properties of the batch operations under SpecBatch.                     *)
(***************************************************************************)
\* C7: a batch whose unit of work returns a fatal error leaves the store as it
\* was before the call, the ids processed earlier included; AddFriends and
\* BlockFriends fail on store failures only, DeleteFriends also on a single row;
\* an id that is a no-op does not keep the ids after it from being applied.
C7_BatchAtomicity ==
    [][/\ last'.err # "nil" => (user_edge' = user_edge /\ edge_count' = edge_count)
       /\ (~last'.faulty /\ last'.op \in {"add", "block"}) => last'.err = "nil"
       /\ \A a \in Users : \A b \in Users \ {a} :
            (~last'.faulty /\ last'.actor = a) =>
              /\ (/\ last'.op = "add" /\ last'.ids = <<Missing, b>>
                  /\ Between(user_edge, a, b) = {})
                 => Pending(user_edge', a, b)
              /\ (/\ last'.op = "add" /\ last'.ids = <<b, b>>
                  /\ Rel(user_edge, a, b, Blocked) /\ From(user_edge, b, a) = {})
                 => Pending(user_edge', a, b)
              /\ (/\ last'.op = "delete" /\ last'.ids = <<Missing, b>>
                  /\ Cardinality(Between(user_edge, a, b)) = 2)
                 => (/\ last'.err = "nil"
                     /\ Between(user_edge', a, b) = {}
                     /\ edge_count' = Bump(edge_count, {a, b}, -1))
              /\ (last'.op = "block" /\ last'.ids = <<Missing, b>>)
                 => Rel(user_edge', a, b, Blocked)]_vars

\* the second unit of an AddFriends batch failed after the first had inserted a pair
C7_Witness ==
    /\ last.op = "add" /\ last.err = "ErrStore" /\ last.unit = 2
    /\ last.ids[1] \in Users
    /\ Between(user_edge, last.actor, last.ids[1]) = {}

(***************************************************************************)
(* The reader: GetFriends on the tables three users can have made, each    *)
(* pair left in one of PairStates.                                         *)
(***************************************************************************)
Profiles == {"u1", "u2", "u3"}

ProfilePairs == {<<"u1", "u2">>, <<"u1", "u3">>, <<"u2", "u3">>}

ReadInit ==
    /\ \E f \in [ProfilePairs -> PairStates] :
         user_edge = UNION {PairRows(p, f[p]) : p \in ProfilePairs}
    /\ edge_count = [u \in Profiles |-> Cardinality(Owned(user_edge, u))]
    /\ now = 1
    /\ last = NoCall
    /\ stale = {}
    /\ calls = 0
    /\ tx = [w \in Workers |-> Idle]

GetFriendsCall ==
    \E userID \in Profiles :
        /\ last' = [NoCall EXCEPT !.op = "get", !.actor = userID,
                                  !.friends = GetFriends(Profiles, user_edge, userID)]
        /\ UNCHANGED <<user_edge, edge_count, now, stale, calls, tx>>

NextRead == GetFriendsCall

SpecRead == ReadInit /\ [][NextRead]_vars

Entry(r) == [Id |-> r.destination_id, State |-> r.state, Online |-> FALSE]

\* C10: GetFriends(U) returns exactly one entry per user_edge row whose source_id
\* is U, Blocked rows included, with that row's destination and state and Online
\* false, nothing for the rows of other sources, and changes no row and no count.
C10_GetFriendsExact ==
    [][last'.op = "get" =>
        LET fs == last'.friends
            own == Owned(user_edge, last'.actor)
        IN  /\ Len(fs) = Cardinality(own)
            /\ \A r \in own : \E i \in 1..Len(fs) : fs[i] = Entry(r)
            /\ \A i \in 1..Len(fs) : \E r \in own : fs[i] = Entry(r)
            /\ user_edge' = user_edge
            /\ edge_count' = edge_count]_vars

C10_Witness ==
    /\ last.op = "get"
    /\ Len(last.friends) = 2
    /\ \E i \in 1..2 : last.friends[i].State = Blocked
    /\ \E i \in 1..2 : last.friends[i].State = Invited
    /\ \E r \in user_edge : r.source_id # last.actor /\ r.destination_id # last.actor

(***************************************************************************)
(* Two AddFriends requests of one id each, run as concurrent transactions  *)
(* whose statements interleave. The store is read committed: a statement   *)
(* reads the committed rows and the transaction's own writes, and waits    *)
(* while a row it would write is written by the other open transaction.    *)
(***************************************************************************)
Key(r) == <<r.source_id, r.destination_id>>

Keys(rows) == {Key(r) : r \in rows}

Other(w) == CHOOSE v \in Workers : v # w

\* what the statements of worker w read in user_edge and in users.edge_count
View(w) == {r \in user_edge : Key(r) \notin tx[w].keys} \cup tx[w].rows

CountView(w) ==
    [u \in Users |-> IF \E c \in tx[w].counts : c[1] = u
                     THEN (CHOOSE c \in tx[w].counts : c[1] = u)[2]
                     ELSE edge_count[u]]

LockedKeys(w) == tx[Other(w)].keys

LockedUsers(w) == {c[1] : c \in tx[Other(w)].counts}

\* worker w's transaction after a statement that turns its view into E
WriteEdges(w, E) ==
    LET keys == tx[w].keys \cup Keys((View(w) \ E) \cup (E \ View(w)))
    IN  [tx[w] EXCEPT !.keys = keys, !.rows = {r \in E : Key(r) \in keys}]

\* worker w's transaction after UPDATE users SET edge_count = edge_count + d on ids
WriteCounts(w, ids, d) ==
    [tx[w] EXCEPT !.counts = {c \in tx[w].counts : c[1] \notin ids}
                             \cup {<<u, CountView(w)[u] + d>> : u \in ids}]

Step(w, t) ==
    /\ tx' = [tx EXCEPT ![w] = t]
    /\ UNCHANGED <<user_edge, edge_count, now, last, stale, calls>>

Quiet == \A w \in Workers : tx[w].pc = "idle"

\* a block made before the two requests arrive
SetupBlock ==
    /\ user_edge = {}
    /\ Quiet
    /\ BlockFriendCall

\* AddFriends: ts := time.Now().UTC().Unix(), and the transaction opens
Begin(w) ==
    /\ tx[w].pc = "idle"
    /\ \E actor \in Users : \E id \in Ids \ {actor} : \E ts \in now..MaxTime :
        /\ tx' = [tx EXCEPT ![w] =
                    [Idle EXCEPT !.pc = "unblock", !.actor = actor, !.target = id,
                                 !.ts = ts,
                                 !.fresh = Between(user_edge, actor, id) = {}]]
        /\ now' = ts
    /\ UNCHANGED <<user_edge, edge_count, last, stale, calls>>

Unblock(w) ==
    /\ tx[w].pc = "unblock"
    /\ LET del == UnblockRows(View(w), tx[w].actor, tx[w].target)
       IN  /\ Keys(del) \cap LockedKeys(w) = {}
           /\ Step(w, [WriteEdges(w, View(w) \ del) EXCEPT
                          !.pc = IF Cardinality(del) = 1 THEN "uncount" ELSE "accept"])

Uncount(w) ==
    /\ tx[w].pc = "uncount"
    /\ tx[w].actor \notin LockedUsers(w)
    /\ Step(w, [WriteCounts(w, {tx[w].actor}, -1) EXCEPT
                   !.pc = "commit", !.err = "ErrNoRows"])

Accept(w) ==
    /\ tx[w].pc = "accept"
    /\ LET upd == AcceptRows(View(w), tx[w].target, tx[w].actor)
       IN  /\ Keys(upd) \cap LockedKeys(w) = {}
           /\ Step(w, [WriteEdges(w, SetState(View(w), upd, Accepted)) EXCEPT
                          !.pc = IF Cardinality(upd) = 2 THEN "commit" ELSE "insert",
                          !.accepted = Cardinality(upd) = 2])

Insert(w) ==
    /\ tx[w].pc = "insert"
    /\ tx[w].target \in Users =>
         {<<tx[w].actor, tx[w].target>>, <<tx[w].target, tx[w].actor>>}
             \cap LockedKeys(w) = {}
    /\ Step(w, [WriteEdges(w, InsertInvite(View(w), tx[w].actor, tx[w].target, tx[w].ts))
                   EXCEPT !.pc = "count"])

Count(w) ==
    /\ tx[w].pc = "count"
    /\ LET tg == CountTargets(View(w), tx[w].actor, tx[w].target, tx[w].ts)
       IN  /\ tg \cap LockedUsers(w) = {}
           /\ Step(w, [WriteCounts(w, tg, 1) EXCEPT
                          !.pc = "commit",
                          !.err = IF Cardinality(tg) # 2 THEN "ErrNoRows" ELSE "nil"])

\* addFriend returned nil or sql.ErrNoRows: the function returns nil, Transact commits
Commit(w) ==
    /\ tx[w].pc = "commit"
    /\ InRange(CountView(w))
    /\ user_edge' = View(w)
    /\ edge_count' = CountView(w)
    /\ tx' = [tx EXCEPT ![w] = [@ EXCEPT !.pc = "done", !.keys = {}, !.rows = {},
                                         !.counts = {}]]
    /\ UNCHANGED <<now, last, stale, calls>>

NextConc ==
    \/ SetupBlock
    \/ \E w \in Workers : Begin(w)
    \/ \E w \in Workers : Unblock(w)
    \/ \E w \in Workers : Uncount(w)
    \/ \E w \in Workers : Accept(w)
    \/ \E w \in Workers : Insert(w)
    \/ \E w \in Workers : Count(w)
    \/ \E w \in Workers : Commit(w)

SpecConc == Init /\ [][NextConc]_vars

\* both requests were for the pair {a, b} and both began with no row between a and b
RacedFor(a, b) ==
    \A w \in Workers :
        /\ tx[w].pc = "done" /\ tx[w].fresh
        /\ {tx[w].actor, tx[w].target} = {a, b}

\* C8: two AddFriends transactions for the same pair that both start with no row
\* between a and b end, under every interleaving and for equal or different
\* timestamps, with one consistent pair of rows and edge_count 1 for a and for b.
C8_ConcurrentAddsAbsorbed ==
    \A a \in Users : \A b \in Users \ {a} :
        RacedFor(a, b) =>
            /\ Pending(user_edge, a, b) \/ Pending(user_edge, b, a)
                 \/ BothAccepted(user_edge, a, b)
            /\ Cardinality(Between(user_edge, a, b)) = 2
            /\ edge_count[a] = 1 /\ edge_count[b] = 1

\* the same with the two requests stamped with different seconds
C8_DifferentSeconds ==
    \A a \in Users : \A b \in Users \ {a} :
        (RacedFor(a, b) /\ tx[1].ts # tx[2].ts) =>
            /\ Pending(user_edge, a, b) \/ Pending(user_edge, b, a)
                 \/ BothAccepted(user_edge, a, b)
            /\ Cardinality(Between(user_edge, a, b)) = 2
            /\ edge_count[a] = 1 /\ edge_count[b] = 1

(***************************************************************************)
(* The request handler ApiServer.AddFriends of server/api_friend.go: the   *)
(* only handler that reaches the engine. fetchUserID resolves the request's *)
(* usernames to the ids of the users that carry them, or fails.            *)
(***************************************************************************)
MaxIds == 1
MaxNames == 1

Usernames == {"name1", "name2", "noname"}

UserOf(name) ==
    CASE name = "name1" -> "u1"
      [] name = "name2" -> "u2"
      [] OTHER -> Missing

RECURSIVE fetchUserID(_)
fetchUserID(usernames) ==
    IF usernames = << >> THEN << >>
    ELSE (IF UserOf(Head(usernames)) \in Users THEN <<UserOf(Head(usernames))>> ELSE << >>)
             \o fetchUserID(Tail(usernames))

SeqsUpTo(S, n) == UNION {[1..k -> S] : k \in 0..n}

\* the self check reading the first id of the list only
IsSelfFirst(allIds, userID) == Len(allIds) > 0 /\ allIds[1] = userID

\* for _, id := range allIds { if userID.String() == id { return InvalidArgument } }
IsSelf(allIds, userID) == \E i \in 1..Len(allIds) : allIds[i] = userID

\* a store failure on the first statement of the first unit, or none
ApiFaults == {NoFault, [unit |-> 1, stmt |-> 1]}

Range(s) == {s[i] : i \in DOMAIN s}

\* what a request held and what the handler answered: whether it carried nothing,
\* where the caller's own id stood in it, whether it named another user
Served(userID, ids, usernames, code, resolved, invoked) ==
    [op |-> "AddFriends", actor |-> userID,
     empty |-> ids = << >> /\ usernames = << >>,
     self |-> IF userID \in Range(ids) THEN "given"
              ELSE IF userID \in {UserOf(n) : n \in Range(usernames)} THEN "named"
              ELSE "none",
     others |-> (Users \ {userID}) \cap
                    (Range(ids) \cup {UserOf(n) : n \in Range(usernames)}) # {},
     err |-> code, resolved |-> resolved, invoked |-> invoked]

\* the handler returns before AddFriends is called
Refuse(userID, ids, usernames, code, resolved) ==
    /\ last' = Served(userID, ids, usernames, code, resolved, FALSE)
    /\ UNCHANGED <<user_edge, edge_count, now, stale>>

ApiAddFriends ==
    \E userID \in Users : \E ids \in SeqsUpTo(Ids, MaxIds) :
      \E usernames \in SeqsUpTo(Usernames, MaxNames) :
        \E fetched \in BOOLEAN : \E ts \in now..MaxTime : \E fault \in ApiFaults :
          LET allIds == ids \o fetchUserID(usernames)
              res == AddFriends(user_edge, edge_count, userID, allIds, ts, fault)
          IN  /\ calls < MaxCalls
              /\ calls' = calls + 1
              /\ IF Len(ids) = 0 /\ Len(usernames) = 0
                 THEN Refuse(userID, ids, usernames, "InvalidArgument", FALSE)
                 ELSE IF ~fetched
                 THEN Refuse(userID, ids, usernames, "Internal", FALSE)
                 ELSE IF IsSelf(allIds, userID)
                 THEN Refuse(userID, ids, usernames, "InvalidArgument", TRUE)
                 ELSE /\ InRange(res.count)
                      /\ user_edge' = res.edge
                      /\ edge_count' = res.count
                      /\ now' = ts
                      /\ last' = Served(userID, ids, usernames,
                                        IF res.err = "nil" THEN "OK" ELSE "Internal",
                                        TRUE, TRUE)
                      /\ UNCHANGED stale
              /\ UNCHANGED tx

NextApi == ApiAddFriends

\* the requests are served from any of the states of the pair of Users
SpecApi == BatchInit /\ [][NextApi]_vars

Ran(op, a, b) == last'.op = op /\ last'.actor = a /\ last'.ids = <<b>>

Paired(E, a, b) == BothAccepted(E, a, b) \/ Pending(E, a, b) \/ Pending(E, b, a)

\* C12: BlockFriend(actor, target) on a paired state (both Accepted, or pending
\* either way) leaves actor->target Blocked and no row target->actor, actor's
\* edge_count unchanged and target's lower by 1; with no row actor->target and an
\* existing target it inserts actor->target Blocked and adds 1 to actor's
\* edge_count; with a target that does not exist it changes nothing, with no error.
C12_BlockTransition ==
    [][\A a \in Users : \A b \in Ids \ {a} :
        Ran("block", a, b) =>
          /\ Paired(user_edge, a, b)
             => (/\ last'.err = "nil"
                 /\ Between(user_edge', a, b) \subseteq From(user_edge', a, b)
                 /\ Rel(user_edge', a, b, Blocked)
                 /\ edge_count' = Bump(edge_count, {b}, -1))
          /\ (From(user_edge, a, b) = {} /\ b \in Users)
             => (/\ last'.err = "nil"
                 /\ Rel(user_edge', a, b, Blocked)
                 /\ Cardinality(From(user_edge', a, b)) = 1
                 /\ edge_count'[a] = edge_count[a] + 1)
          /\ b \notin Users
             => (/\ last'.err = "nil"
                 /\ user_edge' = user_edge
                 /\ edge_count' = edge_count)]_vars

\* the actor blocked a user whose invite it held: its own count stayed, the
\* inviter's fell to 0
C12_Witness ==
    /\ last.op = "block" /\ last.err = "nil" /\ ~last.twice
    /\ <<last.ids[1], last.actor>> \in stale
    /\ Rel(user_edge, last.actor, last.ids[1], Blocked)
    /\ From(user_edge, last.ids[1], last.actor) = {}
    /\ edge_count[last.actor] = 1 /\ edge_count[last.ids[1]] = 0

\* C14: DeleteFriend with both directed rows between actor and target present,
\* in any states, removes both and takes 1 from the edge_count of each; with
\* exactly one row present it returns an error and, the transaction rolled back,
\* that row and every edge_count are as before the call.
C14_DeleteOutcomes ==
    [][\A a \in Users : \A b \in Users \ {a} :
        Ran("delete", a, b) =>
          /\ Cardinality(Between(user_edge, a, b)) = 2
             => (/\ last'.err = "nil"
                 /\ Between(user_edge', a, b) = {}
                 /\ user_edge' \subseteq user_edge
                 /\ edge_count' = Bump(edge_count, {a, b}, -1))
          /\ Cardinality(Between(user_edge, a, b)) = 1
             => (/\ last'.err # "nil"
                 /\ user_edge' = user_edge
                 /\ edge_count' = edge_count)]_vars

\* a DeleteFriend found one row, failed, and the row is still there
C14_Witness ==
    /\ last.op = "delete" /\ last.err = "ErrEdges"
    /\ Cardinality(Between(user_edge, last.actor, last.ids[1])) = 1

\* edge_count of u less the rows u owns
Surplus(E, C, u) == C[u] - Cardinality(Owned(E, u))

\* C15: BlockFriend(actor, target) never deletes or changes a Blocked row
\* target->actor and leaves target's edge_count alone then; once the other has
\* blocked, the call leaves both rows Blocked, each counted by its owner: no
\* edge_count moves but by the rows its user gained or lost.
C15_MutualBlock ==
    [][\A a \in Users : \A b \in Users \ {a} :
        (Ran("block", a, b) /\ Rel(user_edge, b, a, Blocked))
        => (/\ last'.err = "nil"
            /\ From(user_edge', b, a) = From(user_edge, b, a)
            /\ edge_count'[b] = edge_count[b]
            /\ Rel(user_edge', a, b, Blocked)
            /\ Cardinality(Between(user_edge', a, b)) = 2
            /\ edge_count'[a] = edge_count[a]
                                  + (IF From(user_edge, a, b) = {} THEN 1 ELSE 0)
            /\ \A u \in Users : Surplus(user_edge', edge_count', u)
                                    = Surplus(user_edge, edge_count, u))]_vars

\* each of two users has blocked the other: two Blocked rows, each count 1
C15_Witness ==
    /\ last.op = "block" /\ last.err = "nil" /\ ~last.twice
    /\ Rel(user_edge, "u1", "u2", Blocked) /\ Rel(user_edge, "u2", "u1", Blocked)
    /\ \A u \in Users : edge_count[u] = 1

Accepts(b) == [id |-> b, accept |-> TRUE]

\* C17: AddFriend(actor, target) sets both rows to Accepted and reports
\* accepted = true when actor->target is OutgoingRequest and target->actor is
\* Invited, as it does when target->actor is OutgoingRequest and actor->target
\* is Invited.
C17_InviterAccepts ==
    [][\A a \in Users : \A b \in Users \ {a} :
        (Ran("add", a, b) /\ (Pending(user_edge, a, b) \/ Pending(user_edge, b, a)))
        => (/\ last'.err = "nil"
            /\ BothAccepted(user_edge', a, b)
            /\ last'.notif = {Accepts(b)})]_vars

\* C17, amended: called by the user who sent the invite (actor->target
\* OutgoingRequest, target->actor Invited), AddFriend accepts nothing: both rows
\* stay as they are and accepted = true is not reported; called by the invited
\* user it sets both rows to Accepted and reports accepted = true.
C17_OnlyInvitedAccepts ==
    [][\A a \in Users : \A b \in Users \ {a} :
        Ran("add", a, b) =>
          /\ Pending(user_edge, a, b)
             => (/\ last'.err = "nil"
                 /\ Between(user_edge', a, b) = Between(user_edge, a, b)
                 /\ Accepts(b) \notin last'.notif)
          /\ Pending(user_edge, b, a)
             => (/\ last'.err = "nil"
                 /\ BothAccepted(user_edge', a, b)
                 /\ last'.notif = {Accepts(b)})]_vars

\* the inviter added the same user again and the pair is still pending
C17_Witness ==
    /\ last.op = "add" /\ last.twice /\ last.err = "nil"
    /\ last.ids[1] \in Users
    /\ Pending(user_edge, last.actor, last.ids[1])
    /\ Accepts(last.ids[1]) \notin last.notif

\* C18: in every state reached from the empty store with all counts 0 by
\* AddFriend, DeleteFriend and BlockFriend calls, no edge_count is negative.
C18_CountNeverNegative ==
    \A u \in Users : edge_count[u] >= 0

\* C19: a row between a and b is Accepted only if, since the last time no row
\* existed between them, both a request of a to add b and a request of b to add
\* a have been served; so no calls of one user alone make a row Accepted.
C19_NoUnilateralAcceptance ==
    \A a \in Users : \A b \in Users \ {a} :
        Rel(user_edge, a, b, Accepted)
        => (<<a, b>> \in last.asked /\ <<b, a>> \in last.asked)

\* two Accepted rows, made by the answer to an invite
C19_Witness ==
    /\ last.op = "add" /\ last.notif = {Accepts(last.ids[1])}
    /\ BothAccepted(user_edge, "u1", "u2")
    /\ last.asked = {<<"u1", "u2">>, <<"u2", "u1">>}

\* C20: BlockFriend(actor, target) called a second time, right after the first,
\* returns no error and changes no row and no edge_count.
C20_BlockIdempotent ==
    [][\A a \in Users : \A b \in Ids \ {a} :
        (/\ Ran("block", a, b)
         /\ last.op = "block" /\ last.actor = a /\ last.ids = <<b>>)
        => (/\ last'.err = "nil"
            /\ user_edge' = user_edge
            /\ edge_count' = edge_count)]_vars

\* the same block served twice in a row, the target's row removed by the first
C20_Witness ==
    /\ last.op = "block" /\ last.twice /\ last.err = "nil"
    /\ last.ids[1] \in Users
    /\ <<last.ids[1], last.actor>> \in stale
    /\ Rel(user_edge, last.actor, last.ids[1], Blocked)

(***************************************************************************)
(* Properties of the batch operations under SpecBatch, continued.          *)
(***************************************************************************)
\* C13: AddFriend(actor, target) with actor->target Blocked deletes that row,
\* takes 1 from actor's edge_count and stops: no OutgoingRequest or Invited row is
\* made, the row target->actor and target's edge_count are untouched, nothing is
\* notified; AddFriends returns no error and goes on with the ids after it.
C13_ImplicitUnblock ==
    [][\A a \in Users : \A b \in Users \ {a} :
        (/\ last'.op = "add" /\ last'.actor = a /\ ~last'.faulty
         /\ last'.ids[1] = b /\ Rel(user_edge, a, b, Blocked))
        => LET E1 == user_edge \ From(user_edge, a, b)
               C1 == Bump(edge_count, {a}, -1)
               rest == AddFriends(E1, C1, a, Tail(last'.ids), now', NoFault)
           IN  /\ last'.err = "nil"
               /\ Len(last'.ids) = 1
                  => (/\ user_edge' = E1
                      /\ edge_count' = C1
                      /\ last'.notif = {})
               /\ Len(last'.ids) > 1
                  => (/\ user_edge' = rest.edge
                      /\ edge_count' = rest.count
                      /\ last'.notif = rest.notif)]_vars

\* the first id of the batch lifted the actor's block, the second invited anew
C13_Witness ==
    /\ last.op = "add" /\ last.err = "nil" /\ ~last.faulty
    /\ Len(last.ids) = 2 /\ last.ids[1] = last.ids[2] /\ last.ids[1] \in Users
    /\ Pending(user_edge, last.actor, last.ids[1])
    /\ \A r \in user_edge : r.position = 2
    /\ \A u \in Users : edge_count[u] = 1

\* C16: with the pending pair a->b OutgoingRequest / b->a Invited in place, a
\* further AddFriend(a, b) inserts nothing, changes no row and no edge_count and
\* is no error of the batch: in a later request, at a timestamp equal to the
\* rows' position or not, and as the second of two equal ids of one batch.
C16_RepeatInviteIdempotent ==
    [][\A a \in Users : \A b \in Users \ {a} :
        (last'.op = "add" /\ last'.actor = a /\ ~last'.faulty) =>
          /\ (last'.ids = <<b>> /\ Pending(user_edge, a, b))
             => (/\ last'.err = "nil"
                 /\ user_edge' = user_edge
                 /\ edge_count' = edge_count)
          /\ (last'.ids = <<b, b>> /\ Between(user_edge, a, b) = {})
             => (/\ last'.err = "nil"
                 /\ Pending(user_edge', a, b)
                 /\ Cardinality(user_edge') = Cardinality(user_edge) + 2
                 /\ edge_count' = Bump(edge_count, {a, b}, 1))]_vars

=============================================================================
